---- MODULE Spec2Model ----
(***************************************************************************)
(* Model of the 28hse property scraper (class PropertyScraper and main of  *)
(* src/unnamed/part_000, lines 816-1601).                                  *)
(*                                                                         *)
(* Spec       : main() driving scrape_all: listing discovery, the gated    *)
(*              detail tasks, gather, the result sink and the shutdown.    *)
(*              The scraper is the one main() builds: use_selenium=False.  *)
(* FairSpec   : Spec with the event loop taking every step that is ready.  *)
(* SpecPrice  : parse_price_to_millions applied to price texts, and        *)
(*              applied again to the printed form of what it returned.     *)
(* SpecChain  : the extraction of the sell price, the valuation, the sold  *)
(*              price (each with its value in millions) and the location   *)
(*              from a document of table cells.                            *)
(* SpecBreadcrumb : extract_breadcrumb_location applied to the text nodes  *)
(*              of a breadcrumb.                                           *)
(* SpecHeader : the header of a transaction page split into the estate     *)
(*              name and the flat information.                             *)
(* SpecFetch  : fetch_page applied to the responses of the server.         *)
(* SpecSession : concurrent callers of fetch_page on a scraper that has    *)
(*              no session yet.                                            *)
(***************************************************************************)
EXTENDS Integers, Sequences, FiniteSets, TLC

\* ------------------------------------------------------------------ bounds

\* Size of the site's universe of detail URLs.
NumUrls == 3
\* Most property links one listing page carries.
MaxLinksPerPage == 2
\* scrape_all's max_pages argument.
max_pages == 2
\* scrape_all's max_properties argument.
max_properties == 2
\* Largest max_concurrent the scraper is constructed with (1..MaxConcurrent).
MaxConcurrent == 2
\* Most transaction links a detail page carries when several tasks run.
MaxChildLinks == 1
\* Most transaction links a detail page carries when a single task runs.
DeepLinks == 6

\* Most text nodes of a transaction header.
MaxHeaderNodes == 4
\* Concurrent callers of fetch_page.
MaxCallers == 3
\* Most calls of fetch_page one caller makes.
MaxCalls == 2
\* Most text nodes of a breadcrumb.
MaxCrumbNodes == 4
\* Most cells and row openings of a document.
MaxDocLen == 4
\* Longest free part of a price text.
MaxPriceLen == 3

\* --------------------------------------------------------- program constants

\* transaction_urls[:5]
MaxTransactions == 5

\* ------------------------------------------------------------------ helpers

Min(a, b) == IF a < b THEN a ELSE b

SeqsUpTo(S, n) == UNION {[1..m -> S] : m \in 0..n}

InSeq(x, s) == \E j \in 1..Len(s) : s[j] = x

Take(s, n) == SubSeq(s, 1, Min(n, Len(s)))

\* A detail URL is the pair <<digits after "property-", rest of the URL>>:
\* two URLs with the same digits and a different rest are different URLs.
URL(n) == <<(n + 1) \div 2, n % 2>>

URLs == {URL(n) : n \in 1..NumUrls}

\* re.search(r'property-(\d+)', url).group(1)
extract_property_id(url) == url[1]

\* What session.get and response.text() can do: a response with a status and
\* a body (empty, markup, or bytes that text() cannot decode), or an exception
\* (aiohttp.ClientError for connection and DNS errors, asyncio.TimeoutError).
Statuses == {200, 201, 204, 206, 304, 404, 500, 503}

Responses ==
  [kind : {"response"}, status : Statuses,
   body : {"empty", "html", "undecodable"}]
    \cup [kind : {"ClientError", "TimeoutError"}, status : {0},
          body : {"empty"}]

\* Every status of the 2xx class counts as success.
StatusOk_Any2xx(status) == status >= 200 /\ status < 300

\* response.status == 200
StatusOk(status) == status = 200

\* The body of the try block: what it returns (ret) or raises (exc).
TryGet(r) ==
  IF r.kind # "response" THEN [exc |-> r.kind, ret |-> "none"]
  ELSE IF ~StatusOk(r.status) THEN [exc |-> "", ret |-> "none"]
  ELSE IF r.body = "undecodable"
       THEN [exc |-> "UnicodeDecodeError", ret |-> "none"]
  ELSE [exc |-> "", ret |-> r.body]

\* except aiohttp.ClientError / except Exception: both return None.
Handled == {"ClientError", "TimeoutError", "UnicodeDecodeError"}

\* fetch_page: None ("none"), the text of the response, or "raise" when an
\* exception leaves the function.
fetch_page(r) ==
  IF TryGet(r).exc = "" THEN TryGet(r).ret
  ELSE IF TryGet(r).exc \in Handled THEN "none"
  ELSE "raise"

\* What a fetch hands back: None (status or transport error), an empty body,
\* or markup.
FetchResults == {fetch_page(r) : r \in Responses}

\* `not html`
Falsy(html) == html \in {"none", "empty"}

VARIABLES
  max_concurrent,  \* self.max_concurrent
  mainpc,          \* where main()/scrape_all stands
  page,            \* scrape_property_listings: the loop variable
  property_urls,   \* the discovered (then capped) URL list
  semaphore,       \* asyncio.Semaphore: free slots
  tpc,             \* per detail task: its position
  nlinks,          \* per detail task: len(transaction_urls)
  kidx,            \* per detail task: child URLs already handled
  transactions,    \* per detail task: property_obj.transactions (child indices)
  overtaken,       \* a task ended before a task earlier in the list
  properties,      \* what scrape_all returned
  properties_json, \* the JSON file
  properties_csv,  \* the parent table file
  transactions_csv,\* the child table file
  session,         \* self.session: not created yet, open, or closed
  no_new_links,    \* a page fetched by this listing loop added no URL
  listing_html,    \* scrape_property_listings: html, the last page fetched
  harvested,       \* the links of the pages fetched so far, page after page
  discovered,      \* scrape_all: what scrape_property_listings returned
  fn_pc,           \* a function under test: where its run stands
  fn_in,           \* a function under test: its argument
  fn_out,          \* a function under test: what it returned
  fn_prev          \* a function under test: what an earlier call returned

vars == <<max_concurrent, mainpc, page, property_urls, semaphore, tpc, nlinks,
          kidx, transactions, overtaken, properties, properties_json,
          properties_csv, transactions_csv, session, no_new_links,
          listing_html, harvested, discovered, fn_pc, fn_in, fn_out, fn_prev>>

runvars == <<max_concurrent, mainpc, page, property_urls, semaphore, tpc,
             nlinks, kidx, transactions, overtaken, properties,
             properties_json, properties_csv, transactions_csv, session,
             no_new_links, listing_html, harvested, discovered>>
fnvars == <<fn_pc, fn_in, fn_out, fn_prev>>

taskvars == <<tpc, nlinks, kidx, transactions, overtaken>>
sinkvars == <<properties, properties_json, properties_csv, transactions_csv>>
listvars ==
  <<page, property_urls, session, no_new_links, listing_html, harvested,
    discovered>>

Tasks == DOMAIN tpc

\* A target file: whether the run has opened it for writing, the rows in it,
\* whether the write went through to its end, and whether it raised.
NoFile ==
  [written |-> FALSE, rows |-> <<>>, complete |-> FALSE, failed |-> FALSE]

\* --------------------------------------------------------------------- Init

\* PropertyScraper.__init__ and the entry of scrape_all.
Init ==
  /\ max_concurrent \in 1..MaxConcurrent
  /\ mainpc = "listing"
  /\ page = 1
  /\ property_urls = <<>>
  /\ semaphore = 0
  /\ tpc = <<>>
  /\ nlinks = <<>>
  /\ kidx = <<>>
  /\ transactions = <<>>
  /\ overtaken = FALSE
  /\ properties = <<>>
  /\ properties_json = NoFile
  /\ properties_csv = NoFile
  /\ transactions_csv = NoFile
  /\ session = "none"
  /\ no_new_links = FALSE
  /\ listing_html = "unset"
  /\ harvested = <<>>
  /\ discovered = <<>>
  /\ fn_pc = "off"
  /\ fn_in = <<>>
  /\ fn_out = <<>>
  /\ fn_prev = <<>>

\* ------------------------------------------------- scrape_property_listings

\* The loop without its test: every link is appended.
AppendNew_NoDedup(urls, links) == urls \o links

\* for link in property_links: if full_url not in property_urls: append
RECURSIVE AppendNew(_, _)
AppendNew(urls, links) ==
  IF links = <<>> THEN urls
  ELSE AppendNew(IF InSeq(Head(links), urls) THEN urls
                 ELSE Append(urls, Head(links)),
                 Tail(links))

\* html = await self.fetch_page(url): the request is in flight.
ListingFetch ==
  /\ mainpc = "listing"
  /\ page <= max_pages
  /\ mainpc' = "listing_fetching"
  /\ session' = "open"
  /\ UNCHANGED <<max_concurrent, page, property_urls, semaphore,
                 no_new_links, listing_html, harvested, discovered>>
  /\ UNCHANGED taskvars
  /\ UNCHANGED sinkvars
  /\ UNCHANGED fnvars

\* A `break` in the place of the `continue`: the loop is left.
Continue_Break(p) == max_pages + 1

\* `continue`: the for loop goes on with the next index.
Continue(p) == p + 1

\* The listing fetch returns: `if not html: continue`, else harvest the links
\* and go to sleep.
ListingReturn ==
  /\ mainpc = "listing_fetching"
  /\ \E html \in FetchResults, links \in SeqsUpTo(URLs, MaxLinksPerPage) :
       /\ listing_html' = html
       /\ IF Falsy(html)
          THEN /\ links = <<>>
               /\ page' = Continue(page)
               /\ mainpc' = "listing"
               /\ UNCHANGED <<property_urls, no_new_links, harvested>>
          ELSE /\ property_urls' = AppendNew(property_urls, links)
               /\ harvested' = harvested \o links
               /\ no_new_links' =
                    (no_new_links \/ property_urls' = property_urls)
               /\ mainpc' = "listing_sleep"
               /\ UNCHANGED page
  /\ UNCHANGED <<max_concurrent, semaphore, session, discovered>>
  /\ UNCHANGED taskvars
  /\ UNCHANGED sinkvars
  /\ UNCHANGED fnvars

\* await asyncio.sleep(self.delay) is over: next page.
ListingSleepDone ==
  /\ mainpc = "listing_sleep"
  /\ page' = page + 1
  /\ mainpc' = "listing"
  /\ UNCHANGED <<max_concurrent, property_urls, semaphore, session,
                 no_new_links, listing_html, harvested, discovered>>
  /\ UNCHANGED taskvars
  /\ UNCHANGED sinkvars
  /\ UNCHANGED fnvars

\* ---------------------------------------------------------------- scrape_all

\* The list without its slice.
CapUrls_NoCap(urls) == urls

\* property_urls[:max_properties]
CapUrls(urls) == Take(urls, max_properties)

\* A loop left at any index.
RangeExhausted_Always(p) == TRUE

\* for page in range(1, max_pages + 1): the loop is over.
RangeExhausted(p) == p > max_pages

\* Listing discovery returned (its locals and its history are gone): cap the
\* list, create the semaphore and one task per URL, and wait in gather.
FanOut ==
  /\ mainpc = "listing"
  /\ RangeExhausted(page)
  /\ property_urls' = CapUrls(property_urls)
  /\ semaphore' = max_concurrent
  /\ tpc' = [i \in 1..Len(property_urls') |-> "waiting"]
  /\ nlinks' = [i \in 1..Len(property_urls') |-> 0]
  /\ kidx' = [i \in 1..Len(property_urls') |-> 0]
  /\ transactions' = [i \in 1..Len(property_urls') |-> <<>>]
  /\ overtaken' = FALSE
  /\ mainpc' = "gather"
  /\ listing_html' = "unset"
  /\ harvested' = <<>>
  /\ no_new_links' = FALSE
  /\ discovered' = property_urls
  /\ UNCHANGED <<max_concurrent, page, session>>
  /\ UNCHANGED sinkvars
  /\ UNCHANGED fnvars

\* A gate that lets every task in: acquire never looks at the free slots.
CanAcquire_NoGate(i) ==
  \A j \in Tasks : j < i => tpc[j] # "waiting"

\* Semaphore.acquire does not block: a slot is free.  The waiters are woken
\* first come first served, and the tasks were started in list order.
CanAcquire(i) ==
  /\ semaphore > 0
  /\ \A j \in Tasks : j < i => tpc[j] # "waiting"

\* async with semaphore: ... await self.fetch_page(url): the task takes a slot
\* and its detail request is in flight.
Admit(i) ==
  /\ tpc[i] = "waiting"
  /\ CanAcquire(i)
  /\ semaphore' = semaphore - 1
  /\ tpc' = [tpc EXCEPT ![i] = "fetching"]
  /\ UNCHANGED <<max_concurrent, mainpc, nlinks, kidx, transactions,
                 overtaken>>
  /\ UNCHANGED listvars
  /\ UNCHANGED sinkvars
  /\ UNCHANGED fnvars

\* Semaphore.release on leaving the `async with` block.
Release(s) == s + 1

\* The transaction links a detail page can carry in this model.
LinkCounts == IF Len(property_urls) = 1 THEN 0..DeepLinks ELSE 0..MaxChildLinks

\* The loop without its slice: every transaction link is fetched.
Attempted_NoCap(n) == n

\* for trans_url in transaction_urls[:5]
Attempted(n) == Min(n, MaxTransactions)

\* A failed detail fetch tried again: the task queues up at the gate anew.
DetailFetchFails_Retry(i) ==
  /\ tpc' = [tpc EXCEPT ![i] = "waiting"]
  /\ semaphore' = Release(semaphore)
  /\ UNCHANGED <<nlinks, kidx, transactions>>

\* `if not html: return None`
DetailFetchFails(i) ==
  /\ tpc' = [tpc EXCEPT ![i] = "failed"]
  /\ semaphore' = Release(semaphore)
  /\ UNCHANGED <<nlinks, kidx, transactions>>

\* parse_property_page raises (float() in parse_price_to_millions, int() of a
\* unit price): the exception leaves scrape_property and the `async with`.
TaskRaises(i) ==
  /\ tpc' = [tpc EXCEPT ![i] = "raised"]
  /\ semaphore' = Release(semaphore)
  /\ UNCHANGED <<nlinks, kidx, transactions>>

\* parse_property_page returned (property_obj, transaction_urls) with n links.
DetailParsed(i, n) ==
  /\ nlinks' = [nlinks EXCEPT ![i] = n]
  /\ IF Attempted(n) = 0
     THEN /\ tpc' = [tpc EXCEPT ![i] = "done"]
          /\ semaphore' = Release(semaphore)
     ELSE /\ tpc' = [tpc EXCEPT ![i] = "sleeping"]
          /\ UNCHANGED semaphore
  /\ UNCHANGED <<kidx, transactions>>

\* The positions of a task that is over.
Ended == {"done", "failed", "raised"}

\* The step ends task i while a task before it in the list is not over.
Overtakes(i) ==
  /\ tpc'[i] \in Ended
  /\ \E j \in Tasks : j < i /\ tpc'[j] \notin Ended

\* The detail fetch of task i returns.
DetailReturn(i) ==
  /\ tpc[i] = "fetching"
  /\ \E html \in FetchResults :
       \/ /\ Falsy(html)
          /\ DetailFetchFails(i)
       \/ /\ ~Falsy(html)
          /\ TaskRaises(i)
       \/ /\ ~Falsy(html)
          /\ \E n \in LinkCounts : DetailParsed(i, n)
  /\ overtaken' = (overtaken \/ Overtakes(i))
  /\ UNCHANGED <<max_concurrent, mainpc>>
  /\ UNCHANGED listvars
  /\ UNCHANGED sinkvars
  /\ UNCHANGED fnvars

\* await asyncio.sleep(self.delay) is over: the child request is in flight.
SleepDone(i) ==
  /\ tpc[i] = "sleeping"
  /\ tpc' = [tpc EXCEPT ![i] = "child_fetching"]
  /\ UNCHANGED <<max_concurrent, mainpc, semaphore, nlinks, kidx,
                 transactions, overtaken>>
  /\ UNCHANGED listvars
  /\ UNCHANGED sinkvars
  /\ UNCHANGED fnvars

\* A loop without its sleep: the next child request goes out at once.
NextChild_NoDelay(i) ==
  /\ kidx' = [kidx EXCEPT ![i] = kidx[i] + 1]
  /\ IF kidx[i] + 1 < Attempted(nlinks[i])
     THEN /\ tpc' = [tpc EXCEPT ![i] = "child_fetching"]
          /\ UNCHANGED semaphore
     ELSE /\ tpc' = [tpc EXCEPT ![i] = "done"]
          /\ semaphore' = Release(semaphore)

\* The end of one loop iteration: next child, or return property_obj.
NextChild(i) ==
  /\ kidx' = [kidx EXCEPT ![i] = kidx[i] + 1]
  /\ IF kidx[i] + 1 < Attempted(nlinks[i])
     THEN /\ tpc' = [tpc EXCEPT ![i] = "sleeping"]
          /\ UNCHANGED semaphore
     ELSE /\ tpc' = [tpc EXCEPT ![i] = "done"]
          /\ semaphore' = Release(semaphore)

\* `if trans_html:` is false: the child is skipped.
ChildFetchFails(i) ==
  /\ NextChild(i)
  /\ UNCHANGED <<nlinks, transactions>>

\* The transaction put in front of the list.
ChildParsed_Prepend(i) ==
  /\ NextChild(i)
  /\ transactions' = [transactions EXCEPT ![i] = <<kidx[i] + 1>> \o @]
  /\ UNCHANGED nlinks

\* property_obj.transactions.append(transaction)
ChildParsed(i) ==
  /\ NextChild(i)
  /\ transactions' = [transactions EXCEPT ![i] = Append(@, kidx[i] + 1)]
  /\ UNCHANGED nlinks

\* The child fetch of task i returns.
ChildReturn(i) ==
  /\ tpc[i] = "child_fetching"
  /\ \E html \in FetchResults :
       \/ /\ Falsy(html)
          /\ ChildFetchFails(i)
       \/ /\ ~Falsy(html)
          /\ TaskRaises(i)
       \/ /\ ~Falsy(html)
          /\ ChildParsed(i)
  /\ overtaken' = (overtaken \/ Overtakes(i))
  /\ UNCHANGED <<max_concurrent, mainpc>>
  /\ UNCHANGED listvars
  /\ UNCHANGED sinkvars
  /\ UNCHANGED fnvars

\* An Optional value: None is the empty sequence, a value x is <<x>>.
None == <<>>
Some(x) == <<x>>

\* scrape_property without `if not html: return None`: a Property for every
\* task, whatever its fetch returned.
TaskResult_NeverNone(i) ==
  Some([url |-> property_urls[i],
        property_id |-> extract_property_id(property_urls[i]),
        transactions |->
          [c \in 1..Len(transactions[i]) |->
             [url |-> <<property_urls[i], transactions[i][c]>>]]])

\* What scrape_property returned for task i: None or the Property.
TaskResult(i) ==
  IF tpc[i] = "done"
  THEN Some([url |-> property_urls[i],
             property_id |-> extract_property_id(property_urls[i]),
             transactions |->
               [c \in 1..Len(transactions[i]) |->
                  [url |-> <<property_urls[i], transactions[i][c]>>]]])
  ELSE None

\* The results taken from the last task to the first.
RECURSIVE NotNone_Reversed(_)
NotNone_Reversed(results) ==
  IF results = <<>> THEN <<>>
  ELSE NotNone_Reversed(Tail(results))
       \o (IF Head(results) = None THEN <<>> ELSE <<Head(results)[1]>>)

\* properties = [p for p in results if p is not None]
RECURSIVE NotNone(_)
NotNone(results) ==
  IF results = <<>> THEN <<>>
  ELSE IF Head(results) = None THEN NotNone(Tail(results))
       ELSE <<Head(results)[1]>> \o NotNone(Tail(results))

\* results = await asyncio.gather(*tasks): every task returned.
GatherReturn ==
  /\ mainpc = "gather"
  /\ \A i \in Tasks : tpc[i] \in {"done", "failed"}
  /\ properties' = NotNone([i \in 1..Len(property_urls) |-> TaskResult(i)])
  /\ mainpc' = "returned"
  /\ UNCHANGED <<max_concurrent, semaphore, properties_json, properties_csv,
                 transactions_csv>>
  /\ UNCHANGED listvars
  /\ UNCHANGED taskvars
  /\ UNCHANGED fnvars

\* gather hands the first exception of a task on to scrape_all, which has no
\* handler: scrape_all raises into main.
GatherRaise ==
  /\ mainpc = "gather"
  /\ \E i \in Tasks : tpc[i] = "raised"
  /\ mainpc' = "raised"
  /\ UNCHANGED <<max_concurrent, semaphore>>
  /\ UNCHANGED listvars
  /\ UNCHANGED taskvars
  /\ UNCHANGED sinkvars
  /\ UNCHANGED fnvars

\* ------------------------------------------------------------- result sink

\* prop_dict.pop('transactions')
ParentRow(p) == [url |-> p.url, property_id |-> p.property_id]

\* trans_dict['property_id'] = prop.property_id; ['property_url'] = prop.url
ChildRow(p, c) ==
  [url |-> p.transactions[c].url,
   property_id |-> p.property_id,
   property_url |-> p.url]

RECURSIVE ChildRows(_)
ChildRows(props) ==
  IF props = <<>> THEN <<>>
  ELSE [c \in 1..Len(Head(props).transactions) |-> ChildRow(Head(props), c)]
       \o ChildRows(Tail(props))

\* A target file after a write of rows that went through.
Written(rows) ==
  [written |-> TRUE, rows |-> rows, complete |-> TRUE, failed |-> FALSE]

\* A target file after a write of rows that raised: open() raised and the
\* file is as it was, or the file was opened (and so emptied) and the write
\* raised part-way (disk full, encoding error), the first rows being in it.
FailedWrites(old, rows) ==
  {[old EXCEPT !.failed = TRUE],
   [written |-> TRUE, rows |-> Take(rows, Len(rows) \div 2),
    complete |-> FALSE, failed |-> TRUE]}

\* `if rows: DataFrame(rows).to_csv(file)`
WriteCsv(old, rows) == IF rows # <<>> THEN Written(rows) ELSE old

\* properties_data of save_to_csv
ParentRows(props) == [r \in 1..Len(props) |-> ParentRow(props[r])]

\* scraper.save_to_json(properties, ...)
SaveJson ==
  /\ mainpc = "returned"
  /\ properties_json' = Written(properties)
  /\ mainpc' = "json_saved"
  /\ UNCHANGED <<max_concurrent, semaphore, properties, properties_csv,
                 transactions_csv>>
  /\ UNCHANGED listvars
  /\ UNCHANGED taskvars
  /\ UNCHANGED fnvars

\* save_to_json raises (open or json.dump): main has no handler, so
\* save_to_csv is not called.
SaveJsonFails ==
  /\ mainpc = "returned"
  /\ properties_json' \in FailedWrites(properties_json, properties)
  /\ mainpc' = "sink_raised"
  /\ UNCHANGED <<max_concurrent, semaphore, properties, properties_csv,
                 transactions_csv>>
  /\ UNCHANGED listvars
  /\ UNCHANGED taskvars
  /\ UNCHANGED fnvars

\* scraper.save_to_csv(properties, ...)
SaveCsv ==
  /\ mainpc = "json_saved"
  /\ properties_csv' = WriteCsv(properties_csv, ParentRows(properties))
  /\ transactions_csv' = WriteCsv(transactions_csv, ChildRows(properties))
  /\ mainpc' = "csv_saved"
  /\ UNCHANGED <<max_concurrent, semaphore, properties, properties_json>>
  /\ UNCHANGED listvars
  /\ UNCHANGED taskvars
  /\ UNCHANGED fnvars

\* save_to_csv raises in the first to_csv (the second is not reached) or in
\* the second one.
SaveCsvFails ==
  /\ mainpc = "json_saved"
  /\ \/ /\ ParentRows(properties) # <<>>
        /\ properties_csv'
             \in FailedWrites(properties_csv, ParentRows(properties))
        /\ UNCHANGED transactions_csv
     \/ /\ ChildRows(properties) # <<>>
        /\ properties_csv' = WriteCsv(properties_csv, ParentRows(properties))
        /\ transactions_csv'
             \in FailedWrites(transactions_csv, ChildRows(properties))
  /\ mainpc' = "sink_raised"
  /\ UNCHANGED <<max_concurrent, semaphore, properties, properties_json>>
  /\ UNCHANGED listvars
  /\ UNCHANGED taskvars
  /\ UNCHANGED fnvars

\* ----------------------------------------------------------------- shutdown

\* finally: await scraper.close(): the session is closed while the tasks that
\* gather left behind are where they were.
Close ==
  /\ mainpc \in {"csv_saved", "raised", "sink_raised"}
  /\ session' = IF session = "open" THEN "closed" ELSE session
  /\ mainpc' = CASE mainpc = "csv_saved" -> "closed_ok"
                 [] mainpc = "raised" -> "closed_error"
                 [] mainpc = "sink_raised" -> "closed_sink_error"
  /\ UNCHANGED <<max_concurrent, semaphore, page, property_urls,
                 no_new_links, listing_html, harvested, discovered>>
  /\ UNCHANGED taskvars
  /\ UNCHANGED sinkvars
  /\ UNCHANGED fnvars

\* main returns or re-raises, and asyncio.run cancels every task that is
\* still running.
Exit ==
  /\ mainpc \in {"closed_ok", "closed_error", "closed_sink_error"}
  /\ mainpc' = CASE mainpc = "closed_ok" -> "exit_ok"
                 [] mainpc = "closed_error" -> "exit_error"
                 [] mainpc = "closed_sink_error" -> "exit_sink_error"
  /\ tpc' = [i \in Tasks |->
               IF tpc[i] \in {"done", "failed", "raised"} THEN tpc[i]
               ELSE "cancelled"]
  /\ UNCHANGED <<max_concurrent, semaphore, nlinks, kidx, transactions,
                 overtaken>>
  /\ UNCHANGED listvars
  /\ UNCHANGED sinkvars
  /\ UNCHANGED fnvars

\* ====================================================== parse_price_to_millions

\* Text is a sequence of one-character strings.
Digits == {"0", "1", "2", "3", "4", "5", "6", "7", "8", "9"}

DigitValue(c) ==
  CASE c = "0" -> 0 [] c = "1" -> 1 [] c = "2" -> 2 [] c = "3" -> 3
    [] c = "4" -> 4 [] c = "5" -> 5 [] c = "6" -> 6 [] c = "7" -> 7
    [] c = "8" -> 8 [] c = "9" -> 9

DigitChar(d) ==
  CASE d = 0 -> "0" [] d = 1 -> "1" [] d = 2 -> "2" [] d = 3 -> "3"
    [] d = 4 -> "4" [] d = 5 -> "5" [] d = 6 -> "6" [] d = 7 -> "7"
    [] d = 8 -> "8" [] d = 9 -> "9"

\* \s
IsSpace(c) == c = " "

Drop(s, n) == SubSeq(s, n + 1, Len(s))

StartsWith(s, pre) == Len(s) >= Len(pre) /\ SubSeq(s, 1, Len(pre)) = pre

\* re.sub(r'HKD\$?', '', price_str)
RECURSIVE RemoveHKD(_)
RemoveHKD(s) ==
  IF s = <<>> THEN <<>>
  ELSE IF StartsWith(s, <<"H", "K", "D", "$">>) THEN RemoveHKD(Drop(s, 4))
  ELSE IF StartsWith(s, <<"H", "K", "D">>) THEN RemoveHKD(Drop(s, 3))
  ELSE <<Head(s)>> \o RemoveHKD(Tail(s))

\* str.strip()
RECURSIVE LStrip(_)
LStrip(s) == IF s # <<>> /\ IsSpace(Head(s)) THEN LStrip(Tail(s)) ELSE s

RECURSIVE RStrip(_)
RStrip(s) ==
  IF s # <<>> /\ IsSpace(s[Len(s)]) THEN RStrip(SubSeq(s, 1, Len(s) - 1))
  ELSE s

Strip(s) == RStrip(LStrip(s))

\* The length of the longest prefix of s made of characters of S (a greedy
\* character class), and of characters outside S (the scan of re.search).
Span(s, S) ==
  IF \E j \in 1..Len(s) : s[j] \notin S
  THEN (CHOOSE j \in 1..Len(s) :
          s[j] \notin S /\ \A k \in 1..(j - 1) : s[k] \in S) - 1
  ELSE Len(s)

SpanNot(s, S) ==
  IF \E j \in 1..Len(s) : s[j] \in S
  THEN (CHOOSE j \in 1..Len(s) :
          s[j] \in S /\ \A k \in 1..(j - 1) : s[k] \notin S) - 1
  ELSE Len(s)

Spaces == {" "}
DigitsAndDot == Digits \cup {"."}

\* A float is the double nearest to the decimal num * 10^-exp (kept without
\* trailing zeros), divided `scaled` times by 1_000_000 in double arithmetic.
\* The decimals of this model have so few digits that the double prints as
\* the decimal.  The quotient of a whole number by 1_000_000 is again the
\* double nearest to a decimal (one rounding); the quotient of a fraction is
\* rounded twice (0.1 / 1_000_000 is 1.0000000000000001e-07) and is kept as
\* the quotient it is.
RECURSIVE Normal(_, _)
Normal(num, exp) ==
  IF exp > 0 /\ num % 10 = 0 THEN Normal(num \div 10, exp - 1)
  ELSE [kind |-> "value", num |-> num, exp |-> exp, scaled |-> 0]

NoFloat == [kind |-> "none", num |-> 0, exp |-> 0, scaled |-> 0]
Raised == [kind |-> "raise", num |-> 0, exp |-> 0, scaled |-> 0]

RECURSIVE DigitsToInt(_)
DigitsToInt(ds) ==
  IF ds = <<>> THEN 0
  ELSE 10 * DigitsToInt(SubSeq(ds, 1, Len(ds) - 1)) + DigitValue(ds[Len(ds)])

IsDot(c) == c = "."
IsDigit(c) == c \in Digits

\* float(text) for a text of digits and dots: ValueError unless it holds at
\* least one digit and at most one dot.
Float(g) ==
  LET digits == SelectSeq(g, IsDigit)
      dots == SelectSeq(g, IsDot)
      int == Span(g, Digits)
  IN IF digits = <<>> \/ Len(dots) > 1 THEN Raised
     ELSE Normal(DigitsToInt(digits),
                 IF dots = <<>> THEN 0 ELSE Len(g) - int - 1)

\* The value returned as it is: the division is left out.
ToMillions_Undivided(v) == v

\* value / 1_000_000
ToMillions(v) ==
  IF v.exp = 0 THEN Normal(v.num, 6) ELSE [v EXCEPT !.scaled = 1]

\* A pattern without its magnitude group: no suffix is ever seen.
HasMagnitude_Never(rest) == FALSE

\* match.group(2): after the number and any white space stands an M or m,
\* the first letter of each alternative of (M|Million|Millions), re.IGNORECASE.
HasMagnitude(rest) ==
  LET after == Drop(rest, Span(rest, Spaces))
  IN after # <<>> /\ Head(after) \in {"M", "m"}

\* parse_price_to_millions(price_str); the argument is None or Some(text).
parse_price_to_millions(price_str) ==
  IF price_str = None \/ price_str[1] = <<>> THEN NoFloat
  ELSE LET text == Strip(RemoveHKD(price_str[1]))
           from == Drop(text, SpanNot(text, DigitsAndDot))
           group1 == SubSeq(from, 1, Span(from, DigitsAndDot))
           value == Float(group1)
       IN IF from = <<>> THEN NoFloat
          ELSE IF value = Raised THEN Raised
          ELSE IF HasMagnitude(Drop(from, Len(group1))) THEN value
          ELSE ToMillions(value)

RECURSIVE IntToDigits(_)
IntToDigits(n) ==
  IF n < 10 THEN <<DigitChar(n)>>
  ELSE IntToDigits(n \div 10) \o <<DigitChar(n % 10)>>

Zeros(n) == [j \in 1..n |-> "0"]

\* str(v) of a float v >= 0 that is the double of a decimal: fixed notation
\* from 0.0001 up to 1e16, else the shortest mantissa and a two-digit exponent.
FormatFloat(v) ==
  LET ds == IntToDigits(v.num)
      lead == Len(ds) - 1 - v.exp
      mant == <<Head(ds)>> \o
              (IF Len(ds) > 1 THEN <<".">> \o Tail(ds) ELSE <<>>)
      mag == IF lead < 0 THEN 0 - lead ELSE lead
      expo == IF mag < 10 THEN <<"0">> \o IntToDigits(mag) ELSE IntToDigits(mag)
  IN IF v.num = 0 THEN <<"0", ".", "0">>
     ELSE IF lead < -4 THEN mant \o <<"e", "-">> \o expo
     ELSE IF lead >= 16 THEN mant \o <<"e", "+">> \o expo
     ELSE IF v.exp = 0 THEN ds \o <<".", "0">>
     ELSE IF Len(ds) > v.exp
          THEN SubSeq(ds, 1, Len(ds) - v.exp) \o <<".">> \o Drop(ds, Len(ds) - v.exp)
          ELSE <<"0", ".">> \o Zeros(v.exp - Len(ds)) \o ds

\* --------------------------------------------------------------------- Next

Next ==
  \/ ListingFetch
  \/ ListingReturn
  \/ ListingSleepDone
  \/ FanOut
  \/ \E i \in Tasks : Admit(i)
  \/ \E i \in Tasks : DetailReturn(i)
  \/ \E i \in Tasks : SleepDone(i)
  \/ \E i \in Tasks : ChildReturn(i)
  \/ GatherReturn
  \/ GatherRaise
  \/ SaveJson
  \/ SaveJsonFails
  \/ SaveCsv
  \/ SaveCsvFails
  \/ Close
  \/ Exit

Spec == Init /\ [][Next]_vars

\* The event loop runs whatever is ready, every fetch returns and every sleep
\* ends: a step that can be taken is taken.
FairSpec == Spec /\ WF_vars(Next)

\* ---------------------------------------------------------------- SpecPrice

\* While a function is under test no run of main() is going on.
NoRun ==
  /\ max_concurrent = 1
  /\ mainpc = "off"
  /\ page = 1
  /\ property_urls = <<>>
  /\ semaphore = 0
  /\ tpc = <<>>
  /\ nlinks = <<>>
  /\ kidx = <<>>
  /\ transactions = <<>>
  /\ overtaken = FALSE
  /\ properties = <<>>
  /\ properties_json = NoFile
  /\ properties_csv = NoFile
  /\ transactions_csv = NoFile
  /\ session = "none"
  /\ no_new_links = FALSE
  /\ listing_html = "unset"
  /\ harvested = <<>>
  /\ discovered = <<>>

PricePrefixes == {<<>>, <<"H", "K", "D", "$">>, <<"H", "K", "D">>}

PriceChars == {"0", "1", "5", ".", ",", " ", "M"}

PriceSuffixes ==
  {<<>>, <<"M">>, <<"m">>, <<"K">>,
   <<" ", "M", "i", "l", "l", "i", "o", "n", "s">>}

\* None, the empty text, the texts prefix + free part + suffix, and "3000000".
PriceInputs ==
  {None, Some(<<"3", "0", "0", "0", "0", "0", "0">>)}
  \cup {Some(pre \o body \o suf) :
          pre \in PricePrefixes,
          body \in SeqsUpTo(PriceChars, MaxPriceLen),
          suf \in PriceSuffixes}

InitPrice ==
  /\ NoRun
  /\ fn_pc = "price_in"
  /\ fn_in \in PriceInputs
  /\ fn_out = NoFloat
  /\ fn_prev = NoFloat

\* price_millions = self.parse_price_to_millions(price_text)
ApplyPrice ==
  /\ fn_pc = "price_in"
  /\ fn_out' = parse_price_to_millions(fn_in)
  /\ fn_pc' = "price_out"
  /\ UNCHANGED <<fn_in, fn_prev>>
  /\ UNCHANGED runvars

\* The projection applied to str(v) of the value v it returned.
ReapplyBare ==
  /\ fn_pc = "price_out"
  /\ fn_out.kind = "value"
  /\ fn_out.scaled = 0
  /\ fn_prev' = fn_out
  /\ fn_in' = Some(FormatFloat(fn_out))
  /\ fn_out' = parse_price_to_millions(fn_in')
  /\ fn_pc' = "price_again"
  /\ UNCHANGED runvars

\* The projection applied to str(v) + "M" of the value v it returned.
ReapplySuffixed ==
  /\ fn_pc = "price_out"
  /\ fn_out.kind = "value"
  /\ fn_out.scaled = 0
  /\ fn_prev' = fn_out
  /\ fn_in' = Some(FormatFloat(fn_out) \o <<"M">>)
  /\ fn_out' = parse_price_to_millions(fn_in')
  /\ fn_pc' = "price_again_m"
  /\ UNCHANGED runvars

NextPrice ==
  \/ ApplyPrice
  \/ ReapplyBare
  \/ ReapplySuffixed

SpecPrice == InitPrice /\ [][NextPrice]_vars

\* ------------------------------------------------- the extraction chains

\* A document is its table cells in document order; TR opens a table row and
\* the cells before the first TR lie outside any row.  A cell is the list of
\* its text nodes (two text nodes are separated by a <br/>), which is also
\* the cell's get_text(strip=True).  Label is a text node the label pattern
\* of the field matches ("Sell Price" for the sell price, "Valuation" for
\* the valuation, and so on); the other text nodes are price texts.
Label == "Label"

PriceTexts == {"HKD$5M", "HKD$3M"}

TR == <<"<tr>">>

Cells ==
  {<<>>, <<Label>>, <<"HKD$5M">>, <<"HKD$3M">>, <<Label, "HKD$5M">>}

Documents == SeqsUpTo(Cells \cup {TR}, MaxDocLen)

\* The first of a set of positions, 0 for no position.
First(S) == IF S = {} THEN 0 ELSE CHOOSE i \in S : \A j \in S : i <= j

\* soup.find('td', text=re.compile(label)): the first cell whose .string,
\* its only text node, matches the label.
find_td(d) == First({i \in 1..Len(d) : d[i] = <<Label>>})

\* soup.find(text=re.compile(label)): the cell of the first text node that
\* matches the label.
find_text(d) == First({i \in 1..Len(d) : d[i] # TR /\ InSeq(Label, d[i])})

\* cell.find_next_sibling('td')
find_next_sibling(d, i) == IF i < Len(d) /\ d[i + 1] # TR THEN i + 1 ELSE 0

\* element.find_parent('tr'): the position of the row's TR, 0 outside a row.
find_parent_tr(d, i) ==
  IF \E j \in 1..i : d[j] = TR
  THEN CHOOSE j \in 1..i : d[j] = TR /\ \A k \in (j + 1)..i : d[k] # TR
  ELSE 0

\* len(parent.find_all('td')) of the row opened at position tr.
RowLen(d, tr) ==
  Cardinality({j \in (tr + 1)..Len(d) : \A k \in (tr + 1)..j : d[k] # TR})

NotLabel(t) == t # Label

\* _extract_value_from_row (the second definition, which is the one bound to
\* the class): the second cell of the row; outside a row, the next sibling
\* cell; else the parent's text without the label.
extract_value_from_row(d, i) ==
  LET tr == find_parent_tr(d, i)
      fallback == SelectSeq(d[i], NotLabel)
  IN IF tr > 0
     THEN IF RowLen(d, tr) >= 2 THEN d[tr + 2] ELSE fallback
     ELSE IF find_next_sibling(d, i) # 0 THEN d[i + 1] ELSE fallback

\* soup.get_text()
RECURSIVE get_text(_)
get_text(d) ==
  IF d = <<>> THEN <<>>
  ELSE (IF Head(d) = TR THEN <<>> ELSE Head(d)) \o get_text(Tail(d))

\* The price_patterns loop: the price text right after the label, else the
\* first price text of the page.  The second pattern needs a "Price" right
\* before the price text, which in these documents is the end of the label
\* "Sell Price" and is matched by the first pattern already.
price_patterns(page_text) ==
  LET p1 == {j \in 1..(Len(page_text) - 1) :
               page_text[j] = Label /\ page_text[j + 1] \in PriceTexts}
      p3 == {j \in 1..Len(page_text) : page_text[j] \in PriceTexts}
  IN IF p1 # {} THEN Some(<<page_text[First(p1) + 1]>>)
     ELSE IF p3 # {} THEN Some(<<page_text[First(p3)]>>)
     ELSE None

\* `not property_obj.sell_price`
NotSet(v) == v = None \/ v[1] = <<>>

\* parse_property_page, "Extract price information": three methods, each
\* run only while sell_price is not set.
sell_price(d) ==
  LET td == find_td(d)
      m1 == IF td # 0 /\ find_next_sibling(d, td) # 0
            THEN Some(d[find_next_sibling(d, td)]) ELSE None
      elem == find_text(d)
      m2 == IF NotSet(m1) /\ elem # 0 /\ extract_value_from_row(d, elem) # <<>>
            THEN Some(extract_value_from_row(d, elem)) ELSE m1
      m3 == IF NotSet(m2) /\ price_patterns(get_text(d)) # None
            THEN price_patterns(get_text(d)) ELSE m2
  IN m3

\* parse_property_page, "Extract valuation": the text search is the else
\* branch of `if valuation_td`.
valuation(d) ==
  LET td == find_td(d)
      elem == find_text(d)
  IN IF td # 0
     THEN IF find_next_sibling(d, td) # 0
          THEN Some(d[find_next_sibling(d, td)]) ELSE None
     ELSE IF elem # 0 /\ extract_value_from_row(d, elem) # <<>>
          THEN Some(extract_value_from_row(d, elem)) ELSE None

\* parse_transaction_page, "Extract sold price"
sold_price(d) ==
  LET td == find_td(d)
      elem == find_text(d)
  IN IF td # 0
     THEN IF find_next_sibling(d, td) # 0
          THEN Some(d[find_next_sibling(d, td)]) ELSE None
     ELSE IF elem # 0 /\ extract_value_from_row(d, elem) # <<>>
          THEN Some(extract_value_from_row(d, elem)) ELSE None

\* parse_transaction_page, "Extract location/address": the field starts as
\* the empty text.
location(d) ==
  LET td == find_td(d)
      elem == find_text(d)
  IN IF td # 0
     THEN IF find_next_sibling(d, td) # 0
          THEN Some(d[find_next_sibling(d, td)]) ELSE Some(<<>>)
     ELSE IF elem # 0 /\ extract_value_from_row(d, elem) # <<>>
          THEN Some(extract_value_from_row(d, elem)) ELSE Some(<<>>)

\* The characters of a text node: a price text as it is written, and for the
\* label the word "Price", which ends "Sell Price" and "Sold Price" and
\* which, like "Valuation", holds no digit, no dot and no "HKD".
Chars(t) ==
  CASE t = "HKD$5M" -> <<"H", "K", "D", "$", "5", "M">>
    [] t = "HKD$3M" -> <<"H", "K", "D", "$", "3", "M">>
    [] OTHER -> <<"P", "r", "i", "c", "e">>

\* The str a cell text is: its text nodes one after the other.
RECURSIVE Text(_)
Text(cell) == IF cell = <<>> THEN <<>> ELSE Chars(Head(cell)) \o Text(Tail(cell))

\* price_match.group(1) of the match stored as f"HKD${price_match.group(1)}"
match_group1(stored) == Drop(Text(stored), 4)

\* Method 3 leaving the numeric field as it was.
match_millions_Unset(stored) == NoFloat

\* self.parse_price_to_millions(price_match.group(1))
match_millions(stored) == parse_price_to_millions(Some(match_group1(stored)))

\* self.parse_price_to_millions(price_text) of a cell text
text_millions(cell) == parse_price_to_millions(Some(Text(cell)))

\* parse_property_page, "Extract price information": sell_price_millions is
\* assigned next to sell_price in each of the three methods.
sell_price_millions(d) ==
  LET td == find_td(d)
      elem == find_text(d)
      hit1 == td # 0 /\ find_next_sibling(d, td) # 0
      s1 == IF hit1 THEN Some(d[find_next_sibling(d, td)]) ELSE None
      f1 == IF hit1 THEN text_millions(d[find_next_sibling(d, td)]) ELSE NoFloat
      hit2 == NotSet(s1) /\ elem # 0 /\ extract_value_from_row(d, elem) # <<>>
      s2 == IF hit2 THEN Some(extract_value_from_row(d, elem)) ELSE s1
      f2 == IF hit2 THEN text_millions(extract_value_from_row(d, elem)) ELSE f1
      hit3 == NotSet(s2) /\ price_patterns(get_text(d)) # None
  IN IF hit3 THEN match_millions(price_patterns(get_text(d))[1]) ELSE f2

\* parse_property_page, "Extract valuation": valuation_millions
valuation_millions(d) ==
  LET td == find_td(d)
      elem == find_text(d)
  IN IF td # 0
     THEN IF find_next_sibling(d, td) # 0
          THEN text_millions(d[find_next_sibling(d, td)]) ELSE NoFloat
     ELSE IF elem # 0 /\ extract_value_from_row(d, elem) # <<>>
          THEN text_millions(extract_value_from_row(d, elem)) ELSE NoFloat

\* parse_transaction_page, "Extract sold price": sold_price_millions
sold_price_millions(d) ==
  LET td == find_td(d)
      elem == find_text(d)
  IN IF td # 0
     THEN IF find_next_sibling(d, td) # 0
          THEN text_millions(d[find_next_sibling(d, td)]) ELSE NoFloat
     ELSE IF elem # 0 /\ extract_value_from_row(d, elem) # <<>>
          THEN text_millions(extract_value_from_row(d, elem)) ELSE NoFloat

InitChain ==
  /\ NoRun
  /\ fn_pc = "document"
  /\ fn_in \in Documents
  /\ fn_out = None
  /\ fn_prev = NoFloat

ExtractSellPrice ==
  /\ fn_pc = "document"
  /\ fn_out' = sell_price(fn_in)
  /\ fn_prev' = sell_price_millions(fn_in)
  /\ fn_pc' = "sell_price"
  /\ UNCHANGED fn_in
  /\ UNCHANGED runvars

ExtractValuation ==
  /\ fn_pc = "document"
  /\ fn_out' = valuation(fn_in)
  /\ fn_prev' = valuation_millions(fn_in)
  /\ fn_pc' = "valuation"
  /\ UNCHANGED fn_in
  /\ UNCHANGED runvars

ExtractSoldPrice ==
  /\ fn_pc = "document"
  /\ fn_out' = sold_price(fn_in)
  /\ fn_prev' = sold_price_millions(fn_in)
  /\ fn_pc' = "sold_price"
  /\ UNCHANGED fn_in
  /\ UNCHANGED runvars

ExtractLocation ==
  /\ fn_pc = "document"
  /\ fn_out' = location(fn_in)
  /\ fn_pc' = "location"
  /\ UNCHANGED <<fn_in, fn_prev>>
  /\ UNCHANGED runvars

NextChain ==
  \/ ExtractSellPrice
  \/ ExtractValuation
  \/ ExtractSoldPrice
  \/ ExtractLocation

SpecChain == InitChain /\ [][NextChain]_vars

\* ------------------------------------------------ the breadcrumb location

HomeWord == <<"H", "o", "m", "e">>
BuyWord == <<"B", "u", "y">>
PropertyWord == <<"P", "r", "o", "p", "e", "r", "t", "y">>
InfoWord == <<"I", "n", "f", "o">>
SellWord == <<"S", "e", "l", "l">>

\* exclude = ['Home', 'Buy Property', 'Property Info', 'Buy', 'Property',
\*            'Sell']
exclude ==
  {HomeWord, BuyWord \o <<" ">> \o PropertyWord,
   PropertyWord \o <<" ">> \o InfoWord, BuyWord, PropertyWord, SellWord}

\* The characters [>›/] of the split pattern; "&rsaquo;" stands for U+203A.
Separators == {">", "&rsaquo;", "/"}

\* The text of the example: "Home / Islands / Tung Chung / Seaview Crescent".
ExampleCrumb ==
  <<"H", "o", "m", "e", " ", "/", " ", "I", "s", "l", "a", "n", "d", "s",
  " ", "/", " ", "T", "u", "n", "g", " ", "C", "h", "u", "n", "g", " ", "/",
  " ", "S", "e", "a", "v", "i", "e", "w", " ", "C", "r", "e", "s", "c", "e",
  "n", "t">>

\* The text nodes a breadcrumb is made of: boilerplate, an ordinary name, a
\* name of one character, numbers, separators, a blank node, a node with
\* two blanks inside and a node with blanks around it.
CrumbNodes ==
  {HomeWord, BuyWord, PropertyWord, <<"A", "b">>, <<"x">>, <<"1", "2">>,
   <<"/">>, <<">">>, <<" ">>, <<"A", "b", " ", " ", "1", "2">>, <<" ", "x", " ">>}

\* None when the page has no breadcrumb container, else its text nodes.
Breadcrumbs ==
  {None} \cup {Some(b) : b \in SeqsUpTo(CrumbNodes, MaxCrumbNodes)}
    \cup {Some(<<ExampleCrumb>>)}

\* sep.join(parts)
RECURSIVE Join(_, _)
Join(parts, sep) ==
  IF parts = <<>> THEN <<>>
  ELSE IF Len(parts) = 1 THEN parts[1]
  ELSE parts[1] \o sep \o Join(Tail(parts), sep)

\* The text nodes stripped, the empty ones left out.
RECURSIVE StrippedNodes(_)
StrippedNodes(nodes) ==
  IF nodes = <<>> THEN <<>>
  ELSE (IF Strip(Head(nodes)) = <<>> THEN <<>> ELSE <<Strip(Head(nodes))>>)
         \o StrippedNodes(Tail(nodes))

\* breadcrumb.get_text(' ', strip=True)
get_text_strip(nodes) == Join(StrippedNodes(nodes), <<" ">>)

\* re.split(r'[>›/]|\s{2,}', breadcrumb_text): the parts of s, cur being the
\* part read so far.
RECURSIVE SplitParts(_, _)
SplitParts(s, cur) ==
  IF s = <<>> THEN <<cur>>
  ELSE IF Head(s) \in Separators THEN <<cur>> \o SplitParts(Tail(s), <<>>)
  ELSE IF Span(s, Spaces) >= 2
       THEN <<cur>> \o SplitParts(Drop(s, Span(s, Spaces)), <<>>)
  ELSE SplitParts(Tail(s), Append(cur, Head(s)))

re_split(s) == SplitParts(s, <<>>)

\* part.isdigit()
isdigit(part) == part # <<>> /\ \A j \in 1..Len(part) : part[j] \in Digits

\* A part is kept whatever its length.
Keep_AnyLength(part) == part # <<>> /\ part \notin exclude /\ ~isdigit(part)

\* if part and part not in exclude and len(part) > 1: if not part.isdigit()
Keep(part) ==
  part # <<>> /\ part \notin exclude /\ Len(part) > 1 /\ ~isdigit(part)

\* The loop over parts: each part stripped, the kept ones appended.
RECURSIVE filtered_parts(_)
filtered_parts(parts) ==
  IF parts = <<>> THEN <<>>
  ELSE (IF Keep(Strip(Head(parts))) THEN <<Strip(Head(parts))>> ELSE <<>>)
         \o filtered_parts(Tail(parts))

\* The pair (location, estate).
extract_breadcrumb_location(breadcrumb) ==
  IF breadcrumb = None THEN <<None, None>>
  ELSE LET parts == filtered_parts(re_split(get_text_strip(breadcrumb[1])))
       IN IF parts # <<>>
          THEN <<Some(Join(parts, <<"/">>)), Some(parts[Len(parts)])>>
          ELSE <<None, None>>

InitBreadcrumb ==
  /\ NoRun
  /\ fn_pc = "breadcrumb"
  /\ fn_in \in Breadcrumbs
  /\ fn_out = <<None, None>>
  /\ fn_prev = None

\* location, estate = self.extract_breadcrumb_location(soup)
ExtractBreadcrumb ==
  /\ fn_pc = "breadcrumb"
  /\ fn_out' = extract_breadcrumb_location(fn_in)
  /\ fn_pc' = "breadcrumb_out"
  /\ UNCHANGED <<fn_in, fn_prev>>
  /\ UNCHANGED runvars

NextBreadcrumb == ExtractBreadcrumb

SpecBreadcrumb == InitBreadcrumb /\ [][NextBreadcrumb]_vars

\* ------------------------------------------------- the transaction header

\* ['Flat', 'Block', 'Floor', 'Low', 'Mid', 'High']
keywords ==
  {<<"F", "l", "a", "t">>, <<"B", "l", "o", "c", "k">>,
   <<"F", "l", "o", "o", "r">>, <<"L", "o", "w">>, <<"M", "i", "d">>,
   <<"H", "i", "g", "h">>}

\* The text of the example: "City One Shatin, Flat H, Low, Block 30".
ExampleHeader ==
  <<"C", "i", "t", "y", " ", "O", "n", "e", " ", "S", "h", "a", "t", "i",
  "n", ",", " ", "F", "l", "a", "t", " ", "H", ",", " ", "L", "o", "w",
  ",", " ", "B", "l", "o", "c", "k", " ", "3", "0">>

\* The text nodes a header is made of: a name, commas, a keyword in lower
\* case, keywords, a blank node and the two halves of a keyword.
HeaderNodes ==
  {<<"A", "b">>, <<",">>, <<"f", "l", "a", "t", ",">>, <<"L", "o", "w">>,
   <<" ">>, <<"B", "l", "o">>, <<"c", "k">>, <<",", " ", "M", "i", "d">>}

\* None when the page has no h1 and no property-title div, else the text
\* nodes of the header.
Headers ==
  {None} \cup {Some(h) : h \in SeqsUpTo(HeaderNodes, MaxHeaderNodes)}
    \cup {Some(<<ExampleHeader>>)}

\* header.get_text(strip=True)
get_text_joined(nodes) == Join(StrippedNodes(nodes), <<>>)

\* full_name.split(','): the parts of s, cur being the part read so far.
RECURSIVE split_comma(_, _)
split_comma(s, cur) ==
  IF s = <<>> THEN <<cur>>
  ELSE IF Head(s) = "," THEN <<cur>> \o split_comma(Tail(s), <<>>)
  ELSE split_comma(Tail(s), Append(cur, Head(s)))

\* keyword in part
Contains(part, keyword) ==
  \E j \in 1..(Len(part) - Len(keyword) + 1) :
    SubSeq(part, j, j + Len(keyword) - 1) = keyword

\* Every part counts as a part with a keyword.
HasKeyword_Always(part) == TRUE

\* any(keyword in part for keyword in [...])
HasKeyword(part) == \E keyword \in keywords : Contains(part, keyword)

\* The loop over parts[1:]: each part stripped, those with a keyword kept.
RECURSIVE flat_parts(_)
flat_parts(parts) ==
  IF parts = <<>> THEN <<>>
  ELSE (IF HasKeyword(Strip(Head(parts))) THEN <<Strip(Head(parts))>>
        ELSE <<>>) \o flat_parts(Tail(parts))

\* parse_transaction_page, "Extract property full name from header": the
\* fields property_full_name, estate_name and flat_info, which start empty.
parse_header(header) ==
  IF header = None
  THEN [property_full_name |-> <<>>, estate_name |-> <<>>, flat_info |-> <<>>]
  ELSE LET full_name == get_text_joined(header[1])
           parts == split_comma(full_name, <<>>)
       IN [property_full_name |-> full_name,
           estate_name |-> Strip(parts[1]),
           flat_info |-> IF Len(parts) > 1
                         THEN Join(flat_parts(Tail(parts)), <<",", " ">>)
                         ELSE <<>>]

InitHeader ==
  /\ NoRun
  /\ fn_pc = "header"
  /\ fn_in \in Headers
  /\ fn_out = None
  /\ fn_prev = None

ParseHeader ==
  /\ fn_pc = "header"
  /\ fn_out' = parse_header(fn_in)
  /\ fn_pc' = "header_out"
  /\ UNCHANGED <<fn_in, fn_prev>>
  /\ UNCHANGED runvars

NextHeader == ParseHeader

SpecHeader == InitHeader /\ [][NextHeader]_vars

\* ---------------------------------------------------------------- fetch_page

InitFetch ==
  /\ NoRun
  /\ fn_pc = "fetch"
  /\ fn_in \in [url : URLs, response : Responses]
  /\ fn_out = "none"
  /\ fn_prev = None

\* html = await self.fetch_page(url)
FetchPage ==
  /\ fn_pc = "fetch"
  /\ fn_out' = fetch_page(fn_in.response)
  /\ fn_pc' = "fetch_out"
  /\ UNCHANGED <<fn_in, fn_prev>>
  /\ UNCHANGED runvars

NextFetch == FetchPage

SpecFetch == InitFetch /\ [][NextFetch]_vars

\* ------------------------------------------------------------ self.session

\* Concurrent callers of fetch_page on a scraper that has made no request
\* yet.  fn_in is the scraper: self.session (0 for None, else the number of
\* the ClientSession object) and how many ClientSession objects were
\* constructed.  fn_pc is where each caller stands, fn_prev the session of
\* each request it sent, fn_out what its last call returned.
Callers == 1..MaxCallers

\* A fetch_page that builds a session on every call.
EnsureSession_Always(s) ==
  [session |-> s.created + 1, created |-> s.created + 1]

\* `if not self.session: ... self.session = aiohttp.ClientSession(...)`: no
\* await stands between the test and the assignment.
EnsureSession(s) ==
  IF s.session = 0
  THEN [session |-> s.created + 1, created |-> s.created + 1]
  ELSE s

InitSession ==
  /\ NoRun
  /\ fn_in = [session |-> 0, created |-> 0]
  /\ fn_pc = [c \in Callers |-> "idle"]
  /\ fn_prev = [c \in Callers |-> <<>>]
  /\ fn_out = [c \in Callers |-> "none"]

\* Caller c enters fetch_page and runs up to the await of self.session.get.
CallFetchPage(c) ==
  /\ fn_pc[c] \in {"idle", "returned"}
  /\ Len(fn_prev[c]) < MaxCalls
  /\ fn_in' = EnsureSession(fn_in)
  /\ fn_prev' = [fn_prev EXCEPT ![c] = Append(@, fn_in'.session)]
  /\ fn_pc' = [fn_pc EXCEPT ![c] = "requesting"]
  /\ UNCHANGED fn_out
  /\ UNCHANGED runvars

\* The request of caller c is answered and fetch_page returns.
ReturnFetchPage(c) ==
  /\ fn_pc[c] = "requesting"
  /\ \E r \in Responses : fn_out' = [fn_out EXCEPT ![c] = fetch_page(r)]
  /\ fn_pc' = [fn_pc EXCEPT ![c] = "returned"]
  /\ UNCHANGED <<fn_in, fn_prev>>
  /\ UNCHANGED runvars

NextSession ==
  \/ \E c \in Callers : CallFetchPage(c)
  \/ \E c \in Callers : ReturnFetchPage(c)

SpecSession == InitSession /\ [][NextSession]_vars

\* ================================================================== claims

InFlightStates == {"fetching", "sleeping", "child_fetching"}

InFlight == {i \in Tasks : tpc[i] \in InFlightStates}

\* scrape_all has returned its list to main.
Returned ==
  mainpc \in {"returned", "json_saved", "csv_saved", "sink_raised", "closed_ok",
              "closed_sink_error", "exit_ok", "exit_sink_error"}

\* scrape_all is over: it returned or it raised.
Finished == Returned \/ mainpc \in {"raised", "closed_error", "exit_error"}

\* The records of the output that belong to task i.
RecordsOf(i) == {r \in 1..Len(properties) : properties[r].url = property_urls[i]}

\* The child fetches of task i that failed so far.
ChildFailures(i) == kidx[i] - Len(transactions[i])

\* The detail fetch of task i returned markup.
DetailFetched(i) == tpc[i] \in {"sleeping", "child_fetching", "done", "raised"}

\* C1: with max_concurrent = K, at most K detail tasks are inside
\* scrape_property (fetching the detail page or its children) in any state.
C1_AtMostKInFlight == Cardinality(InFlight) <= max_concurrent

\* K tasks are inside scrape_property while another one waits at the gate.
C1_Witness ==
  /\ Cardinality(InFlight) = max_concurrent
  /\ \E i \in Tasks : tpc[i] = "waiting"

\* C2: once scrape_all is over, a task whose detail fetch failed has no record
\* in the output, and every other task whose own detail fetch succeeded has
\* its record there.
C2_FailedFetchIsolated ==
  Finished =>
    \A i \in Tasks :
      tpc[i] = "failed" =>
        /\ RecordsOf(i) = {}
        /\ \A j \in Tasks \ {i} : DetailFetched(j) => RecordsOf(j) # {}

C4_OutputIsDoneTasks ==
  Returned =>
    /\ \A i \in Tasks :
         /\ tpc[i] = "done" => Cardinality(RecordsOf(i)) = 1
         /\ tpc[i] = "failed" => RecordsOf(i) = {}
    /\ \A r \in 1..Len(properties) :
         \E i \in Tasks :
           /\ tpc[i] = "done"
           /\ properties[r].url = property_urls[i]
           /\ Len(properties[r].transactions) = Len(transactions[i])

\* scrape_all returned after one task ended Done and another Failed.
C4_Witness ==
  /\ Returned
  /\ \E i, j \in Tasks : tpc[i] = "done" /\ tpc[j] = "failed"

\* C5: under fair scheduling, with every fetch returning, every launched task
\* reaches Done or Failed and scrape_all returns.
C5_AllTasksEndAndReturn ==
  <>(Returned /\ \A i \in Tasks : tpc[i] \in {"done", "failed"})

\* The number of children of all records together.
RECURSIVE TotalChildren(_)
TotalChildren(props) ==
  IF props = <<>> THEN 0
  ELSE Len(Head(props).transactions) + TotalChildren(Tail(props))

\* C6: the parent table has one row per record, the child table one row per
\* child, and the property_id of every child row is the property_id of
\* exactly one parent row.
C6_ForeignKeyUnique ==
  mainpc \in {"csv_saved", "closed_ok", "exit_ok"} =>
    /\ Len(properties_csv.rows) = Len(properties)
    /\ Len(transactions_csv.rows) = TotalChildren(properties)
    /\ \A c \in 1..Len(transactions_csv.rows) :
         Cardinality({r \in 1..Len(properties_csv.rows) :
                        properties_csv.rows[r].property_id
                          = transactions_csv.rows[c].property_id}) = 1

\* A price text of the form [HKD[$]] <number> [M | Million | Millions], the
\* number being digits with an optional fraction.
MagnitudeWords ==
  {<<"M">>, <<"M", "i", "l", "l", "i", "o", "n">>,
   <<"M", "i", "l", "l", "i", "o", "n", "s">>}

PriceTextBody(t) ==
  IF StartsWith(t, <<"H", "K", "D", "$">>) THEN Drop(t, 4)
  ELSE IF StartsWith(t, <<"H", "K", "D">>) THEN Drop(t, 3)
  ELSE t

PriceNumber(t) ==
  SubSeq(PriceTextBody(t), 1, Span(PriceTextBody(t), DigitsAndDot))

PriceTail(t) == LStrip(Drop(PriceTextBody(t), Len(PriceNumber(t))))

IsPlainNumber(g) ==
  /\ g # <<>>
  /\ g[1] \in Digits
  /\ g[Len(g)] \in Digits
  /\ Len(SelectSeq(g, IsDot)) <= 1

WellFormedPrice(t) ==
  /\ IsPlainNumber(PriceNumber(t))
  /\ PriceTail(t) \in MagnitudeWords \cup {<<>>}

\* The digits of a plain number after its dot.
FractionLen(g) ==
  IF SelectSeq(g, IsDot) = <<>> THEN 0 ELSE Len(g) - Span(g, Digits) - 1

FixedNotation(v) ==
  \/ v.num = 0
  \/ /\ Len(IntToDigits(v.num)) - 1 - v.exp >= -4
     /\ Len(IntToDigits(v.num)) - 1 - v.exp < 16

\* C8 as stated: applied to the printed form of its own result v, the
\* projection gives v again.
C8_Idempotent ==
  fn_pc = "price_again" => fn_out = fn_prev

\* C8 as amended: for a result v printed in fixed notation, the projection of
\* str(v) followed by the magnitude suffix M is v again, and the projection of
\* the bare str(v) is v / 1,000,000, which is v only for v = 0.
C8_IdempotentWithSuffix ==
  /\ (fn_pc = "price_again_m" /\ FixedNotation(fn_prev)) => fn_out = fn_prev
  /\ (fn_pc = "price_again" /\ FixedNotation(fn_prev)) =>
       /\ fn_out = IF fn_prev.exp = 0 THEN Normal(fn_prev.num, 6)
                   ELSE [fn_prev EXCEPT !.scaled = 1]
       /\ (fn_out = fn_prev) <=> (fn_prev.num = 0)

\* 1.5 was printed as "1.5M" and projected again.
C8_Witness ==
  /\ fn_pc = "price_again_m"
  /\ fn_prev = [kind |-> "value", num |-> 15, exp |-> 1, scaled |-> 0]
  /\ fn_in = Some(<<"1", ".", "5", "M">>)
  /\ fn_out = fn_prev

\* The strategies of a chain, each taken by itself on the document: the cell
\* after the label cell, the value of the row of the label text, and (sell
\* price only) the price patterns over the page text.
CellStrategy(d) ==
  IF find_td(d) # 0 /\ find_next_sibling(d, find_td(d)) # 0
  THEN Some(d[find_next_sibling(d, find_td(d))]) ELSE None

TextStrategy(d) ==
  IF find_text(d) # 0 THEN Some(extract_value_from_row(d, find_text(d)))
  ELSE None

Chain(field, d) ==
  IF field = "sell_price"
  THEN <<CellStrategy(d), TextStrategy(d), price_patterns(get_text(d))>>
  ELSE <<CellStrategy(d), TextStrategy(d)>>

\* The result of the first strategy of the chain with a non-empty value.
RECURSIVE FirstNonEmpty(_)
FirstNonEmpty(chain) ==
  IF chain = <<>> THEN None
  ELSE IF ~NotSet(Head(chain)) THEN Head(chain)
  ELSE FirstNonEmpty(Tail(chain))

ChainFields == {"sell_price", "valuation", "sold_price", "location"}

\* C9: the sell price, the valuation, the sold price and the location are
\* each the result of the first strategy of their chain, in declared order,
\* that yields a non-empty value on the document, and are None or empty only
\* if every strategy yields none.
C9_FirstStrategyWins ==
  fn_pc \in ChainFields =>
    LET first == FirstNonEmpty(Chain(fn_pc, fn_in))
    IN IF first = None THEN NotSet(fn_out) ELSE fn_out = first

Range(s) == {s[j] : j \in 1..Len(s)}

\* The separator between the words of a breadcrumb.
SEP == <<>>

\* A text node as the words and separators written in it.
WordsOf(node) ==
  CASE node \in {<<"/">>, <<">">>} -> <<SEP>>
    [] node = <<" ">> -> <<>>
    [] node = <<" ", "x", " ">> -> << <<"x">> >>
    [] node = <<"A", "b", " ", " ", "1", "2">> ->
         << <<"A", "b">>, SEP, <<"1", "2">> >>
    [] node = ExampleCrumb ->
         <<HomeWord, SEP, <<"I", "s", "l", "a", "n", "d", "s">>, SEP,
           <<"T", "u", "n", "g", " ", "C", "h", "u", "n", "g">>, SEP,
           <<"S", "e", "a", "v", "i", "e", "w", " ", "C", "r", "e", "s",
           "c", "e", "n", "t">>>>
    [] OTHER -> <<node>>

RECURSIVE AllWords(_)
AllWords(nodes) ==
  IF nodes = <<>> THEN <<>> ELSE WordsOf(Head(nodes)) \o AllWords(Tail(nodes))

\* The tokens of a list of words and separators: the words between two
\* separators, a blank between two words; cur is the token being read.
RECURSIVE TokensOf(_, _)
TokensOf(words, cur) ==
  IF words = <<>> THEN (IF cur = <<>> THEN <<>> ELSE <<cur>>)
  ELSE IF Head(words) = SEP
       THEN (IF cur = <<>> THEN <<>> ELSE <<cur>>)
              \o TokensOf(Tail(words), <<>>)
  ELSE TokensOf(Tail(words),
                IF cur = <<>> THEN Head(words)
                ELSE cur \o <<" ">> \o Head(words))

Boilerplate(token) == token \in exclude

Numeric(token) == \A j \in 1..Len(token) : token[j] \in Digits

ShortToken(token) == Len(token) < 2

RECURSIVE Without(_, _)
Without(tokens, dropped) ==
  IF tokens = <<>> THEN <<>>
  ELSE (IF Head(tokens) \in dropped THEN <<>> ELSE <<Head(tokens)>>)
         \o Without(Tail(tokens), dropped)

CrumbTokens == TokensOf(AllWords(fn_in[1]), <<>>)

\* C10 as stated: the location is the tokens of the breadcrumb text that are
\* neither boilerplate nor pure numbers, in their order, joined by "/", and
\* the estate is the last of them; the example text gives
\* "Islands/Tung Chung/Seaview Crescent" and "Seaview Crescent".
C10_DropsBoilerplateAndNumbers ==
  (fn_pc = "breadcrumb_out" /\ fn_in # None) =>
    LET tokens == CrumbTokens
        rest == Without(tokens,
                  {t \in Range(tokens) : Boilerplate(t) \/ Numeric(t)})
    IN rest # <<>> =>
         fn_out = <<Some(Join(rest, <<"/">>)), Some(rest[Len(rest)])>>

\* C10, amended: the tokens of one character are dropped as well, and the
\* location and the estate are both None when no token remains or the page
\* has no breadcrumb.
C10_DropsShortTokensToo ==
  fn_pc = "breadcrumb_out" =>
    /\ fn_in = None => fn_out = <<None, None>>
    /\ fn_in # None =>
         LET tokens == CrumbTokens
             rest == Without(tokens,
                       {t \in Range(tokens) :
                          Boilerplate(t) \/ Numeric(t) \/ ShortToken(t)})
         IN fn_out = IF rest = <<>> THEN <<None, None>>
                     ELSE <<Some(Join(rest, <<"/">>)), Some(rest[Len(rest)])>>
    /\ fn_in = Some(<<ExampleCrumb>>) =>
         fn_out =
           <<Some(<<"I", "s", "l", "a", "n", "d", "s", "/", "T", "u", "n",
                  "g", " ", "C", "h", "u", "n", "g", "/", "S", "e", "a",
                  "v", "i", "e", "w", " ", "C", "r", "e", "s", "c", "e",
                  "n", "t">>),
             Some(<<"S", "e", "a", "v", "i", "e", "w", " ", "C", "r", "e",
                  "s", "c", "e", "n", "t">>)>>

\* The breadcrumb "x / Ab 12" was decomposed: the token x is dropped.
C10_Witness ==
  /\ fn_pc = "breadcrumb_out"
  /\ fn_in = Some(<< <<"x">>, <<"/">>, <<"A", "b">>, <<"1", "2">> >>)
  /\ fn_out = <<Some(<<"A", "b", " ", "1", "2">>),
               Some(<<"A", "b", " ", "1", "2">>)>>

\* The header text: the stripped text nodes, one after the other.
HeaderText == get_text_joined(fn_in[1])

\* The positions of the commas of the header text, and its end.
CommaEnds ==
  {j \in 1..Len(HeaderText) : HeaderText[j] = ","} \cup {Len(HeaderText) + 1}

\* The segment that ends at the comma (or text end) e, stripped.
SegmentBefore(e) ==
  LET starts == {0} \cup {j \in 1..Len(HeaderText) : HeaderText[j] = ","}
      b == CHOOSE j \in starts : j < e /\ \A k \in starts : k < e => k <= j
  IN Strip(SubSeq(HeaderText, b + 1, e - 1))

\* The ends of the later segments that contain a keyword, in ascending
\* order; from is the end of the segment before the first one looked at.
RECURSIVE KeywordSegments(_)
KeywordSegments(from) ==
  IF \A e \in CommaEnds : e <= from THEN <<>>
  ELSE LET e == CHOOSE x \in CommaEnds :
                  x > from /\ \A y \in CommaEnds : y > from => x <= y
       IN (IF \E kw \in keywords : Contains(SegmentBefore(e), kw)
           THEN <<SegmentBefore(e)>> ELSE <<>>) \o KeywordSegments(e)

FirstCommaEnd == CHOOSE e \in CommaEnds : \A y \in CommaEnds : e <= y

\* C11: the estate name is the first comma-separated segment of the header
\* and the flat info is the later segments that contain a keyword, in their
\* order, joined by ", "; the header "City One Shatin, Flat H, Low, Block 30"
\* gives "City One Shatin" and "Flat H, Low, Block 30".
C11_HeaderSegments ==
  (fn_pc = "header_out" /\ fn_in # None) =>
    /\ fn_out.estate_name = SegmentBefore(FirstCommaEnd)
    /\ fn_out.flat_info =
         Join(KeywordSegments(FirstCommaEnd), <<",", " ">>)
    /\ fn_in = Some(<<ExampleHeader>>) =>
         /\ fn_out.estate_name =
              <<"C", "i", "t", "y", " ", "O", "n", "e", " ", "S", "h", "a",
              "t", "i", "n">>
         /\ fn_out.flat_info =
              <<"F", "l", "a", "t", " ", "H", ",", " ", "L", "o", "w", ",",
              " ", "B", "l", "o", "c", "k", " ", "3", "0">>

\* The header "Ab,flat,Low" was parsed: the segment "flat" has no keyword.
C11_Witness ==
  /\ fn_pc = "header_out"
  /\ fn_in = Some(<< <<"A", "b">>, <<",">>, <<"f", "l", "a", "t", ",">>,
                    <<"L", "o", "w">> >>)
  /\ fn_out.estate_name = <<"A", "b">>
  /\ fn_out.flat_info = <<"L", "o", "w">>

\* The result sink is over: both save calls returned, or one of them raised.
SinkOver ==
  mainpc \in {"csv_saved", "sink_raised", "closed_ok", "closed_sink_error",
              "exit_ok", "exit_sink_error"}

\* The target was written to its end, or its own write raised.
WrittenOrFailed(file) == file.complete \/ file.failed

\* C12: once the result sink is over, every target whose own write did not
\* fail is written (the JSON file always, each CSV file when it has rows),
\* and no target is left partly written.
C12_TargetsIndependent ==
  SinkOver =>
    /\ \A file \in {properties_json, properties_csv, transactions_csv} :
         file.written => file.complete
    /\ WrittenOrFailed(properties_json)
    /\ ParentRows(properties) # <<>> => WrittenOrFailed(properties_csv)
    /\ ChildRows(properties) # <<>> => WrittenOrFailed(transactions_csv)

\* Every detail fetch of the run failed (or there was none to make: every
\* listing fetch failed, or no listing page carried a link).
AllDetailFetchesFailed ==
  /\ mainpc \notin {"listing", "listing_fetching", "listing_sleep"}
  /\ \A i \in Tasks : tpc[i] = "failed"

\* C13: no exception leaves scrape_all, whatever fetches fail; and when every
\* detail fetch failed, scrape_all returns the empty list and main reports
\* zero records.
C13_RunCompletes ==
  /\ mainpc \notin {"raised", "closed_error", "exit_error"}
  /\ (AllDetailFetchesFailed /\ Returned) => properties = <<>>
  /\ (AllDetailFetchesFailed /\ mainpc = "json_saved") =>
       properties_json = Written(<<>>)

\* C14 as stated: fetch_page returns the text of every response with a 2xx
\* status, None for every other status and for every transport failure, and
\* never raises.
C14_MarkupForEvery2xx ==
  fn_pc = "fetch_out" =>
    LET r == fn_in.response
    IN /\ fn_out # "raise"
       /\ (r.kind = "response" /\ r.status \in 200..299
             /\ r.body # "undecodable") => fn_out = r.body
       /\ (r.kind # "response" \/ r.status \notin 200..299) => fn_out = "none"

\* C14 as amended: the text is returned for status 200 only; every other
\* status, the 2xx ones included, gives None, as do a transport failure and a
\* body that cannot be decoded; fetch_page never raises.
C14_MarkupFor200Only ==
  fn_pc = "fetch_out" =>
    LET r == fn_in.response
    IN /\ fn_out # "raise"
       /\ (r.kind = "response" /\ r.status = 200 /\ r.body # "undecodable")
            => fn_out = r.body
       /\ (r.kind # "response" \/ r.status # 200 \/ r.body = "undecodable")
            => fn_out = "none"

\* A response with status 206 and markup was fetched: None came back.
C14_Witness ==
  /\ fn_pc = "fetch_out"
  /\ fn_in.response = [kind |-> "response", status |-> 206, body |-> "html"]
  /\ fn_out = "none"

\* The requests of the detail tasks that are in flight.
FetchesInFlight == {i \in Tasks : tpc[i] \in {"fetching", "child_fetching"}}

\* C15: the session is closed only after the last fetch: once it is closed,
\* no request is in flight and none is issued.
C15_ClosedAfterLastFetch ==
  session = "closed" =>
    /\ mainpc \notin {"listing", "listing_fetching", "listing_sleep", "gather"}
    /\ FetchesInFlight = {}

\* C16: in a record, a price projection is None when its price string is
\* None, and else is parse_price_to_millions of the stored string, whichever
\* method supplied the string.
C16_ProjectionOfStoredString ==
  fn_pc \in {"sell_price", "valuation", "sold_price"} =>
    fn_prev = IF fn_out = None THEN NoFloat
              ELSE parse_price_to_millions(Some(Text(fn_out[1])))

\* The sell price of a page without a label, supplied by the page text
\* search: "HKD$5M" stored, 5.0 projected.
C16_Witness ==
  /\ fn_pc = "sell_price"
  /\ find_td(fn_in) = 0
  /\ find_text(fn_in) = 0
  /\ fn_out = Some(<<"HKD$5M">>)
  /\ fn_prev = Normal(5, 0)

\* The moves of the claim's machine in the task states of the model: Pending
\* is waiting, Fetched is the return of the detail fetch with a page,
\* ExtractingChildren is the loop over the transaction links (sleeping,
\* child_fetching), which a page without links leaves at once.
MachineMoves ==
  {<<"waiting", "fetching">>, <<"fetching", "failed">>,
   <<"fetching", "sleeping">>, <<"fetching", "done">>,
   <<"sleeping", "child_fetching">>, <<"child_fetching", "sleeping">>,
   <<"child_fetching", "done">>}

\* C17: a detail URL moves only along Pending -> Fetching -> (Fetched ->
\* ExtractingChildren -> Done) | Failed; Done and Failed are never left.
C17_OnlyMachineMoves ==
  [][\A i \in DOMAIN tpc :
       (i \in DOMAIN tpc' /\ tpc'[i] # tpc[i]) =>
         <<tpc[i], tpc'[i]>> \in MachineMoves]_vars

\* C18: once a fetched listing page has yielded no link that was not already
\* discovered, no further listing page is fetched.
C18_StopsAfterNoNewLinks ==
  no_new_links => mainpc # "listing_fetching"

\* C19: a listing fetch that fails skips that page only: the links found so
\* far are kept, the loop goes on with the next index, and while that index
\* is at most max_pages the next thing discovery does is fetch it.
C19_FailedPageSkipped ==
  /\ [][(mainpc = "listing_fetching" /\ Falsy(listing_html')) =>
          /\ property_urls' = property_urls
          /\ page' = page + 1
          /\ mainpc' = "listing"]_vars
  /\ []((mainpc = "listing" /\ page <= max_pages) =>
          (ENABLED ListingFetch /\ ~ENABLED FanOut))

\* Page 1 failed and page 2 is being fetched.
C19_Witness ==
  /\ mainpc = "listing_fetching"
  /\ page = 2
  /\ Falsy(listing_html)
  /\ property_urls = <<>>

\* C20: the delay elapses between two consecutive listing fetches: when the
\* fetch of a page that is not the last one returns, with a page or without,
\* the run waits before it fetches the next page.
C20_DelayBetweenListingFetches ==
  [][(mainpc = "listing_fetching" /\ page < max_pages) =>
       mainpc' = "listing_sleep"]_vars

\* The first n elements of s, each kept at its first occurrence only.
RECURSIVE KeepFirst(_, _)
KeepFirst(s, n) ==
  IF n = 0 THEN <<>>
  ELSE IF \E j \in 1..(n - 1) : s[j] = s[n] THEN KeepFirst(s, n - 1)
  ELSE Append(KeepFirst(s, n - 1), s[n])

\* C21: during and at the end of listing discovery the URL list is the links
\* of the fetched pages, page after page in document order, each URL kept at
\* its first occurrence; the list never holds a URL twice.
C21_MergedInPageOrder ==
  /\ mainpc \in {"listing", "listing_fetching", "listing_sleep"} =>
       property_urls = KeepFirst(harvested, Len(harvested))
  /\ \A i, j \in 1..Len(property_urls) :
       property_urls[i] = property_urls[j] => i = j

\* Discovery is over, two pages were fetched, the second one repeating a
\* link of the first and adding a new one after it.
C21_Witness ==
  /\ mainpc = "listing"
  /\ page > max_pages
  /\ harvested = <<URL(2), URL(1), URL(1), URL(3)>>
  /\ property_urls = <<URL(2), URL(1), URL(3)>>

ListingStates == {"listing", "listing_fetching", "listing_sleep"}

\* C22: discovery runs to its end before fan-out: while a detail task exists
\* (so before any detail fetch) the listing loop has gone through all its
\* pages and no listing fetch is in flight or still to come.
C22_DiscoveryBeforeFanOut ==
  Tasks # {} => (mainpc \notin ListingStates /\ page > max_pages)

\* A detail fetch in flight after discovery went through its max_pages pages.
C22_Witness ==
  /\ page = max_pages + 1
  /\ mainpc = "gather"
  /\ \E i \in Tasks : tpc[i] = "fetching"

\* The number of URLs fan-out keeps.
Kept == IF Len(discovered) < max_properties THEN Len(discovered)
        ELSE max_properties

\* C23: after fan-out there is one task per URL of the capped list, the
\* first min(discovered, max_properties) URLs in discovery order; scrape_all
\* returns at most max_properties records, all of capped URLs; and no task
\* has a URL from beyond the cap.
C23_OneTaskPerCappedUrl ==
  /\ mainpc \notin ListingStates =>
       /\ property_urls = SubSeq(discovered, 1, Kept)
       /\ Tasks = 1..Kept
       /\ \A i \in Tasks, k \in (Kept + 1)..Len(discovered) :
            property_urls[i] # discovered[k]
  /\ Len(properties) <= max_properties
  /\ \A r \in 1..Len(properties) :
       \E i \in 1..Kept : properties[r].url = discovered[i]

\* Three URLs discovered, max_properties tasks launched, the third URL cut.
C23_Witness ==
  /\ Len(discovered) = max_properties + 1
  /\ Len(properties) = max_properties
  /\ Cardinality(Tasks) = max_properties

\* The children a record of task i holds, from the child links the task
\* fetched and parsed.
ChildrenOf(i) ==
  [c \in 1..Len(transactions[i]) |->
     [url |-> <<property_urls[i], transactions[i][c]>>]]

\* C24: the children of a task are child links among the first
\* MaxTransactions links of its page, in the document order of the links and
\* each at most once, so never more than MaxTransactions; and the record
\* scrape_all returns for the task holds exactly these children in this order.
C24_ChildrenInDocumentOrder ==
  /\ \A i \in Tasks :
       /\ Len(transactions[i]) <= MaxTransactions
       /\ \A a \in 1..Len(transactions[i]) :
            /\ transactions[i][a] >= 1
            /\ transactions[i][a] <= nlinks[i]
            /\ transactions[i][a] <= MaxTransactions
            /\ transactions[i][a] <= kidx[i]
            /\ \A b \in 1..(a - 1) : transactions[i][b] < transactions[i][a]
  /\ Returned =>
       \A r \in 1..Len(properties) :
         \E i \in Tasks :
           /\ properties[r].url = property_urls[i]
           /\ properties[r].transactions = ChildrenOf(i)

\* A returned record of a page with more links than the cap: the first, the
\* third and the fifth child were fetched, the second and the fourth failed.
C24_Witness ==
  /\ Returned
  /\ Len(properties) = 1
  /\ nlinks[1] > MaxTransactions
  /\ transactions[1] = <<1, 3, 5>>
  /\ properties[1].transactions = ChildrenOf(1)

\* C25: a task has one fetch in flight at a time and waits the delay before
\* each child fetch: a child request goes out only from the wait, and the
\* wait is entered only when the task's previous fetch has returned.
C25_ChildFetchAfterDelay ==
  [][\A i \in DOMAIN tpc :
       i \in DOMAIN tpc' =>
         /\ (tpc'[i] = "child_fetching"
               /\ (tpc[i] # "child_fetching" \/ kidx'[i] # kidx[i])) =>
              (tpc[i] = "sleeping" /\ kidx'[i] = kidx[i])
         /\ (tpc'[i] = "sleeping" /\ tpc[i] # "sleeping") =>
              tpc[i] \in {"fetching", "child_fetching"}]_vars

\* The second child request of a task is in flight.
C25_Witness ==
  \E i \in Tasks : tpc[i] = "child_fetching" /\ kidx[i] = 1

\* C26: no detail URL is requested twice: the tasks have different URLs, the
\* task list is fixed once it is built, a task sends its detail request only
\* when it leaves the gate, and no task, failed or not, comes back to the
\* gate.
C26_NoRetry ==
  /\ [](\A i, j \in Tasks : property_urls[i] = property_urls[j] => i = j)
  /\ [][\A i \in DOMAIN tpc :
          /\ i \in DOMAIN tpc'
          /\ property_urls'[i] = property_urls[i]
          /\ tpc[i] # "waiting" => tpc'[i] # "waiting"
          /\ (tpc'[i] = "fetching" /\ tpc[i] # "fetching") =>
               tpc[i] = "waiting"
          /\ tpc[i] = "failed" => tpc'[i] = "failed"]_vars

\* The run is over and a detail fetch that failed was left at that.
C26_Witness ==
  /\ mainpc = "exit_ok"
  /\ \E i \in Tasks : tpc[i] = "failed" /\ kidx[i] = 0

\* The requests sent so far, as pairs of caller and call number.
RequestsSent ==
  {q \in Callers \X (1..MaxCalls) : q[2] <= Len(fn_prev[q[1]])}

\* C27: no session exists before the first fetch_page call; however the
\* calls of concurrent callers interleave, at most one session is ever
\* constructed and every request is sent on that session.
C27_OneLazySession ==
  /\ fn_in.created <= 1
  /\ RequestsSent = {} <=> fn_in.session = 0
  /\ RequestsSent = {} <=> fn_in.created = 0
  /\ \A q \in RequestsSent :
       fn_prev[q[1]][q[2]] = fn_in.session /\ fn_in.session # 0

\* All callers have a request in flight at once, one of them its second.
C27_Witness ==
  /\ \A c \in Callers : fn_pc[c] = "requesting"
  /\ \E c \in Callers : Len(fn_prev[c]) = 2
  /\ fn_in.created = 1

\* C28: no extraction step raises: applied to a matched price text, whatever
\* its digits and dots, the projection returns a number or leaves the field
\* absent (None).
C28_NoExtractionRaises ==
  fn_pc = "price_out" => fn_out.kind \in {"value", "none"}

\* C29: a page whose parsing raises is handled like a fetch failure of that
\* page: no exception leaves the task, scrape_all does not raise, and what
\* scrape_all returns holds the record of every task that ended Done.
C29_ParseFailureIsolated ==
  /\ \A i \in Tasks : tpc[i] \notin {"raised", "cancelled"}
  /\ Finished => Returned
  /\ Returned => \A i \in Tasks : tpc[i] = "done" => RecordsOf(i) # {}

\* Where a URL stands in the list discovery returned.
DiscoveryIndex(u) == CHOOSE k \in 1..Len(discovered) : discovered[k] = u

\* C30: the records scrape_all returns stand in the discovery order of their
\* URLs, in whatever order the tasks ended.
C30_RecordsInDiscoveryOrder ==
  Returned =>
    \A a, b \in 1..Len(properties) :
      /\ \E k \in 1..Len(discovered) : discovered[k] = properties[a].url
      /\ a < b => DiscoveryIndex(properties[a].url)
                    < DiscoveryIndex(properties[b].url)

\* Two tasks, both with a record, the second of which ended first.
C30_Witness ==
  /\ Returned
  /\ overtaken
  /\ Cardinality(Tasks) = 2
  /\ Len(properties) = 2
  /\ properties[1].url = discovered[1]

====
